---- MODULE Spec2Model ----
(***************************************************************************)
(* The NDVI web client (Frenzi11/ndvi-web-app): the page script's event    *)
(* handlers as a state machine.                                            *)
(*                                                                         *)
(* The repository holds three revisions of the page script that differ in  *)
(* what the claims are about; `build` says which one the page loaded:      *)
(*   "legacy" : src/unnamed/part_000, lines 339-552 (area check, EDITED    *)
(*              and DELETED handlers, download links)                      *)
(*   "v1"     : src/frontend/script.js, lines 1-189 (edit toolbar, chart   *)
(*              and layer slider)                                          *)
(*   "v2"     : src/frontend/script.js, lines 190-429 (no edit toolbar,    *)
(*              progress bar, export button)                               *)
(* One step of the model is one turn of the browser's event loop: a user   *)
(* event with all its listeners, or the continuation of the click handler  *)
(* after its awaits.                                                       *)
(***************************************************************************)
EXTENDS Integers, Sequences, FiniteSets, TLC

\* ------------------------------------------------------------- bounds
\* Accepted submissions (RPCs issued) in one run.
MaxSubmits == 2
\* Image layers in one success response: 0..MaxLayers.
MaxLayers == 2
\* Vertices of a sequence handed to the area estimator: 0..MaxVertices.
MaxVertices == 4
\* Clicks on the find-my-location button in one run.
MaxLocates == 3

\* ---------------------------------------------------------- constants
\* Dates are day numbers; 0 is the empty input value "".
\* startDateInput.min = '2015-06-23'
MissionStart == 2
\* today = new Date()
Today == 4
\* const KM_PER_DEGREE = 111
KM_PER_DEGREE == 111
\* const MAX_FRONTEND_AREA_ESTIMATE_SQKM = 50
MAX_FRONTEND_AREA_ESTIMATE_SQKM == 50

Builds == {"legacy", "v1", "v2"}

\* The values a date input can hold: "" (0), a day before the mission start,
\* the mission start, a day inside the window, today, a day after today.
Dates == 0..(Today + 1)

Frequencies == {"monthly", "weekly"}

\* Opacities are percentages. { opacity: 0.8 } of L.imageOverlay, which is also
\* value="0.8" of the opacity slider.
DefaultOpacity == 80
\* The values the opacity slider is moved to (min="0" max="1" step="0.05").
OpacityValues == {50, DefaultOpacity}

\* ----------------------------------------------------------- polygons
\* A polygon is its ring of vertices, in units of 1 / KM_PER_DEGREE of a
\* degree (a unit is one kilometre of latitude).
LatLng(lat, lng) == [lat |-> lat, lng |-> lng]

\* The shapes the user draws, both at the equator: 1 is a rectangle of 5 by 10
\* units, estimated at 50 km2, the maximum itself; 2 is one of 6 by 9 units,
\* estimated at 54 km2.
PolygonShapes ==
    <<  << LatLng(0, 0), LatLng(0, 10), LatLng(5, 10), LatLng(5, 0) >>,
        << LatLng(0, 0), LatLng(0, 9), LatLng(6, 9), LatLng(6, 0) >>  >>

PolygonIds == 1..Len(PolygonShapes)

\* layer.getLatLngs()[0]: the ring as drawn, not closed.
GetLatLngs(p) == PolygonShapes[p]

\* layer.toGeoJSON().geometry.coordinates[0].map(c => [c[0], c[1]]): [lng, lat]
\* pairs, the ring closed by a copy of its first vertex.
PolygonCoords(p) ==
    LET ring == GetLatLngs(p)
        closed == Append(ring, ring[1])
    IN  [i \in 1..Len(closed) |-> << closed[i].lng, closed[i].lat >>]

\* Math.cos(lat * Math.PI / 180) in thousandths, lat in units: 1.000 up to one
\* degree from the equator (cos >= 0.99985), 0.500 at 60 degrees.
CosPermille(lat) ==
    IF lat = 60 * KM_PER_DEGREE \/ lat = -60 * KM_PER_DEGREE THEN 500 ELSE 1000

Abs(x) == IF x < 0 THEN -x ELSE x

\* The loop of getApproximatePolygonArea: the sum of x1 * y2 - x2 * y1 over the
\* pairs (j, i) = (n, 1), (1, 2), ..., (n - 1, n), from pair i on.
RECURSIVE ShoelaceFrom(_, _)
ShoelaceFrom(latlngs, i) ==
    IF i > Len(latlngs) THEN 0
    ELSE LET j  == IF i = 1 THEN Len(latlngs) ELSE i - 1
             x1 == latlngs[j].lng * KM_PER_DEGREE * CosPermille(latlngs[j].lat)
             y1 == latlngs[j].lat * KM_PER_DEGREE
             x2 == latlngs[i].lng * KM_PER_DEGREE * CosPermille(latlngs[i].lat)
             y2 == latlngs[i].lat * KM_PER_DEGREE
         IN  (x1 * y2 - x2 * y1) + ShoelaceFrom(latlngs, i + 1)

\* One km2 in the units of the sum: each coordinate is multiplied by
\* KM_PER_DEGREE without being divided by it, the cosine is in thousandths.
AreaUnit == KM_PER_DEGREE * KM_PER_DEGREE * 1000

\* Variant: the sum is returned with its sign (no Math.abs).
getApproximatePolygonArea_Signed(latlngs) ==
    IF Len(latlngs) < 3 THEN 0 ELSE ShoelaceFrom(latlngs, 1)

\* Variant: a negative sum gives 0 (Math.max(0, area / 2) in place of
\* Math.abs(area / 2)).
getApproximatePolygonArea_NegativeIsZero(latlngs) ==
    IF Len(latlngs) < 3 THEN 0
    ELSE IF ShoelaceFrom(latlngs, 1) < 0 THEN 0 ELSE ShoelaceFrom(latlngs, 1)

\* Variant: the loop leaves out the pair that closes the ring (j starts at 0
\* instead of at the last vertex).
getApproximatePolygonArea_OpenRing(latlngs) ==
    IF Len(latlngs) < 3 THEN 0 ELSE Abs(ShoelaceFrom(latlngs, 2))

\* getApproximatePolygonArea(latlngs), times 2 * AreaUnit (the halving and the
\* scaling are left to the comparison, so that the value is an integer).
getApproximatePolygonArea(latlngs) ==
    IF Len(latlngs) < 3 THEN 0 ELSE Abs(ShoelaceFrom(latlngs, 1))

\* approxArea > MAX_FRONTEND_AREA_ESTIMATE_SQKM
AreaTooLarge(p) ==
    getApproximatePolygonArea(GetLatLngs(p))
        > 2 * AreaUnit * MAX_FRONTEND_AREA_ESTIMATE_SQKM

\* The vertices of the sequences the estimator is tried on: the corners of a
\* rectangle of 1 by 2 units.
Vertices == {LatLng(lat, lng) : lat \in {0, 1}, lng \in {0, 2}}

\* Every sequence of at most MaxVertices of them, in any order and with
\* repetitions.
VertexSequences == UNION {[1..n -> Vertices] : n \in 0..MaxVertices}

\* The sequence rotated by k places: its vertex k + 1 first.
Rotate(latlngs, k) ==
    [i \in 1..Len(latlngs) |-> latlngs[((i + k - 1) % Len(latlngs)) + 1]]

\* The sequence in the opposite winding order: its last vertex first.
Reverse(latlngs) ==
    [i \in 1..Len(latlngs) |-> latlngs[Len(latlngs) + 1 - i]]

\* -------------------------------------------------------------- state
VARIABLES
    build,                  \* which revision of the page script is loaded
    currentPolygon,         \* let currentPolygon: 0 is null, else a polygon
    drawnItems,             \* the polygons in the drawnItems feature group
    userPolygon,            \* history: the polygon last drawn and not deleted
                            \* through the toolbar since; 0 when there is none
    processBtnDisabled,     \* processBtn.disabled
    progressHidden,         \* progressBarContainer has the class 'hidden'
    statusMessage,          \* statusMessage: [text, className]
    chartContainerShown,    \* chartContainer.style.display = 'block'
    mapControlsShown,       \* mapControlsContainer.style.display = 'block'
    ndviChart,              \* let ndviChart: 0 is null, else the submission
                            \* whose graphData the chart holds
    chartsAlive,            \* the Chart instances created and not destroyed
    chartData,              \* datasets[0].data of the chart in ndviChart
    activeMapLayers,        \* let activeMapLayers: the overlays it holds
    mapOverlays,            \* the image overlays on the map
    sliderMax,              \* slider.max
    sliderValue,            \* slider.value
    sliderListeners,        \* the slider's 'input' listeners, in the order
                            \* added: each the showLayer of one submission
    dateLabel,              \* dateLabel.textContent: the layer it names
    opacitySlider,          \* the value of the opacity slider, in percent
    downloadLinkContainer,  \* the children of downloadLinkContainer
    exportWindow,           \* the query string of the last
                            \* window.open('/export-html?...'); << >> is none
    pending,                \* the click handlers suspended on their request
    rpcCount,               \* history: the calls of fetch so far
    locateListeners,        \* the locationfound/locationerror listener
                            \* pairs registered on the map
    locating,               \* the geolocation requests not yet answered
    locationFixes,          \* history: the locationfound events so far
    locationMarkers,        \* the marker/circle pairs on the map, each with
                            \* its timer running: [fix, listener]
    areaArg,                \* the estimator on its own: a vertex sequence
    areaCalls               \* the calls of getApproximatePolygonArea made on
                            \* areaArg, its rotations and its reverse:
                            \* [arg, reversed, value]

vars == << build, currentPolygon, drawnItems, userPolygon,
           processBtnDisabled, progressHidden,
           statusMessage, chartContainerShown, mapControlsShown, ndviChart,
           chartsAlive, chartData, activeMapLayers, mapOverlays, sliderMax, sliderValue,
           sliderListeners, dateLabel, opacitySlider, downloadLinkContainer,
           exportWindow, pending, rpcCount, locateListeners, locating,
           locationFixes, locationMarkers, areaArg, areaCalls >>

\* The variables each group of handlers leaves alone.
polygonVars == << currentPolygon, drawnItems, userPolygon >>
chartVars   == << ndviChart, chartsAlive, chartData >>
layerVars   == << activeMapLayers, mapOverlays, sliderMax, sliderValue,
                  sliderListeners, dateLabel >>
resultVars  == << chartContainerShown, mapControlsShown >>
requestVars == << pending, rpcCount >>
buttonVars  == << processBtnDisabled, progressHidden >>
estimatorVars == << areaArg, areaCalls >>
locationVars == << locateListeners, locating, locationFixes, locationMarkers >>

\* ------------------------------------------------------------- status
\* The text of a status message: which message, the number it shows (the
\* estimated area, the count of images) and the backend's error string.
Message(kind, num, detail) == [kind |-> kind, num |-> num, detail |-> detail]

\* The type argument of the catch block of v2: the caught Error object, which
\* the template literal turns into its string.
ErrorObject == "TypeError: Failed to fetch"

\* statusMessage.className, as the list of its class names.
\*   legacy : `status ${type}`
\*   v1     : type ? `status ${type}` : ''
\*   v2     : type ? `${type}` : ''
ClassName(b, type) ==
    CASE b = "legacy" -> IF type = "" THEN << "status" >> ELSE << "status", type >>
      [] b = "v1"     -> IF type = "" THEN << >> ELSE << "status", type >>
      [] OTHER        -> IF type = "" THEN << >> ELSE << type >>

\* updateStatus(message, type)
updateStatus(b, message, type) ==
    [text |-> message, className |-> ClassName(b, type)]

NoMessage == Message("", 0, "")

\* Request with a body that does not carry frequencySelect.value, so that
\* the service takes its default.
Request_DefaultFrequency(sub, polygon, startDate, endDate, frequency) ==
    [sub |-> sub, polygon |-> polygon, startDate |-> startDate,
     endDate |-> endDate, frequency |-> "monthly"]

\* The JSON body of a call of fetch, with the number of the submission it
\* belongs to (the first accepted submission is 1).
Request(sub, polygon, startDate, endDate, frequency) ==
    [sub |-> sub, polygon |-> polygon, startDate |-> startDate,
     endDate |-> endDate, frequency |-> frequency]

\* ------------------------------------------------------------ Init
\* The page after DOMContentLoaded: no polygon, the default dates, the result
\* containers hidden (index.html), no chart, no overlay.
Loaded ==
    /\ currentPolygon = 0
    /\ drawnItems = {}
    /\ userPolygon = 0
    /\ processBtnDisabled = FALSE
    /\ progressHidden = TRUE
    /\ statusMessage = [text |-> NoMessage, className |-> << >>]
    /\ chartContainerShown = FALSE
    /\ mapControlsShown = FALSE
    /\ ndviChart = 0
    /\ chartsAlive = {}
    /\ chartData = << >>
    /\ exportWindow = << >>
    /\ locateListeners = 0
    /\ locating = 0
    /\ locationFixes = 0
    /\ locationMarkers = {}
    /\ activeMapLayers = {}
    /\ mapOverlays = {}
    /\ sliderMax = 0
    /\ sliderValue = 0
    /\ sliderListeners = << >>
    /\ dateLabel = [sub |-> 0, index |-> 0]
    /\ opacitySlider = DefaultOpacity
    /\ downloadLinkContainer = << >>
    /\ pending = {}
    /\ rpcCount = 0

\* The page: one of the builds is loaded; the estimator is not looked at on
\* its own.
Init ==
    /\ build \in Builds
    /\ Loaded
    /\ areaArg = << >>
    /\ areaCalls = {}

\* ------------------------------------------------------- drawing
\* DrawCreated without if (currentPolygon) drawnItems.removeLayer(currentPolygon).
DrawCreated_KeepsPrevious(p) ==
    /\ drawnItems' = drawnItems \cup {p}
    /\ currentPolygon' = p
    /\ userPolygon' = p
    /\ statusMessage' = IF build = "legacy"
                        THEN updateStatus(build, NoMessage, "")
                        ELSE statusMessage
    /\ UNCHANGED << build, estimatorVars, locationVars, exportWindow, opacitySlider, buttonVars, resultVars, chartVars,
                    layerVars, downloadLinkContainer, requestVars >>

\* map.on(L.Draw.Event.CREATED): the user finishes drawing polygon p. The
\* legacy build also clears the status line.
DrawCreated(p) ==
    /\ drawnItems' = (IF currentPolygon # 0 THEN drawnItems \ {currentPolygon}
                                            ELSE drawnItems) \cup {p}
    /\ currentPolygon' = p
    /\ userPolygon' = p
    /\ statusMessage' = IF build = "legacy"
                        THEN updateStatus(build, NoMessage, "")
                        ELSE statusMessage
    /\ UNCHANGED << build, estimatorVars, locationVars, exportWindow, opacitySlider, buttonVars, resultVars, chartVars,
                    layerVars, downloadLinkContainer, requestVars >>

\* The edit toolbar (legacy and v1 pass `edit: { featureGroup: drawnItems }`;
\* v2 has no edit toolbar): the user edits the drawn polygon and saves.
\* Only the legacy build listens to L.Draw.Event.EDITED.
DrawEdited ==
    /\ build \in {"legacy", "v1"}
    /\ drawnItems # {}
    /\ statusMessage' = IF build = "legacy"
                        THEN updateStatus(build, NoMessage, "")
                        ELSE statusMessage
    /\ UNCHANGED << build, estimatorVars, locationVars, exportWindow, opacitySlider, polygonVars, buttonVars, resultVars,
                    chartVars, layerVars, downloadLinkContainer, requestVars >>

\* The edit toolbar's delete mode: the user removes the drawn polygons and
\* saves; the toolbar takes them out of drawnItems and fires
\* L.Draw.Event.DELETED. Only the legacy build listens to it
\* (currentPolygon = null; updateStatus('')).
DrawDeleted ==
    /\ build \in {"legacy", "v1"}
    /\ drawnItems # {}
    /\ drawnItems' = {}
    /\ userPolygon' = 0
    /\ currentPolygon' = IF build = "legacy" THEN 0 ELSE currentPolygon
    /\ statusMessage' = IF build = "legacy"
                        THEN updateStatus(build, NoMessage, "")
                        ELSE statusMessage
    /\ UNCHANGED << build, estimatorVars, locationVars, exportWindow, opacitySlider, buttonVars, resultVars, chartVars,
                    layerVars, downloadLinkContainer, requestVars >>

\* ------------------------------------------------------------ submit
\* The checks at the head of the click handler, in the order of the code:
\* which one returns first, or "accepted". Only the legacy build estimates the
\* area; no build compares the dates with the mission start or with today.
Validate(b, polygon, startDate, endDate) ==
    IF polygon = 0 THEN "noPolygon"
    ELSE IF b = "legacy" /\ AreaTooLarge(polygon) THEN "tooLarge"
    ELSE IF startDate = 0 \/ endDate = 0 \/ startDate > endDate
         THEN "invalidDates"
    ELSE "accepted"

\* The message of a rejection: the too-large message shows the estimate.
RejectionMessage(reason, polygon) ==
    IF reason = "tooLarge"
    THEN Message(reason, getApproximatePolygonArea(GetLatLngs(polygon)), "")
    ELSE Message(reason, 0, "")

\* The type of the 'Processing data, please wait...' status.
ProcessingType(b) == IF b = "legacy" THEN "" ELSE "info"

\* RejectSubmission with fetch called before the checks (a request goes out,
\* with no handler waiting for it, although the submission is rejected).
RejectSubmission_AfterFetch(verdict) ==
    /\ rpcCount < MaxSubmits
    /\ statusMessage' =
           updateStatus(build, RejectionMessage(verdict, currentPolygon), "error")
    /\ rpcCount' = rpcCount + 1
    /\ UNCHANGED << buttonVars, resultVars, downloadLinkContainer, pending >>

\* RejectSubmission that also empties downloadLinkContainer, as the accepting
\* path does.
RejectSubmission_ClearsLinks(verdict) ==
    /\ statusMessage' =
           updateStatus(build, RejectionMessage(verdict, currentPolygon), "error")
    /\ downloadLinkContainer' = << >>
    /\ UNCHANGED << buttonVars, resultVars, requestVars >>

\* RejectSubmission that also hides the result containers, as the accepting
\* path does.
RejectSubmission_HidesResults(verdict) ==
    /\ statusMessage' =
           updateStatus(build, RejectionMessage(verdict, currentPolygon), "error")
    /\ chartContainerShown' = FALSE
    /\ mapControlsShown' = FALSE
    /\ UNCHANGED << buttonVars, downloadLinkContainer, requestVars >>

\* A check fails: updateStatus(..., 'error'); return. Nothing else is written.
RejectSubmission(verdict) ==
    /\ statusMessage' =
           updateStatus(build, RejectionMessage(verdict, currentPolygon), "error")
    /\ UNCHANGED << buttonVars, resultVars, downloadLinkContainer, requestVars >>

\* AcceptSubmission that calls fetch twice for the one click, with one handler
\* waiting.
AcceptSubmission_FetchTwice(startDate, endDate, frequency) ==
    /\ rpcCount < MaxSubmits
    /\ progressHidden' = IF build = "v2" THEN FALSE ELSE progressHidden
    /\ processBtnDisabled' = TRUE
    /\ statusMessage' =
           updateStatus(build, Message("processing", 0, ""), ProcessingType(build))
    /\ chartContainerShown' = IF build = "legacy" THEN chartContainerShown ELSE FALSE
    /\ mapControlsShown' = IF build = "legacy" THEN mapControlsShown ELSE FALSE
    /\ downloadLinkContainer' =
           IF build = "v1" THEN downloadLinkContainer ELSE << >>
    /\ LET request == Request(rpcCount + 1, PolygonCoords(currentPolygon),
                              startDate, endDate, frequency)
       IN  /\ pending' = pending \cup {request}
           /\ rpcCount' = rpcCount + 2

\* AcceptSubmission without processBtn.disabled = true: the button stays
\* enabled while the handler waits for its response.
AcceptSubmission_ButtonStaysEnabled(startDate, endDate, frequency) ==
    /\ rpcCount < MaxSubmits
    /\ progressHidden' = IF build = "v2" THEN FALSE ELSE progressHidden
    /\ processBtnDisabled' = processBtnDisabled
    /\ statusMessage' =
           updateStatus(build, Message("processing", 0, ""), ProcessingType(build))
    /\ chartContainerShown' = IF build = "legacy" THEN chartContainerShown ELSE FALSE
    /\ mapControlsShown' = IF build = "legacy" THEN mapControlsShown ELSE FALSE
    /\ downloadLinkContainer' =
           IF build = "v1" THEN downloadLinkContainer ELSE << >>
    /\ LET request == Request(rpcCount + 1, PolygonCoords(currentPolygon),
                              startDate, endDate, frequency)
       IN  /\ pending' = pending \cup {request}
           /\ rpcCount' = rpcCount + 1

\* All checks pass: the progress bar is shown (v2), the button disabled, the
\* status set, the old results hidden (v1, v2) and the old links and export
\* button removed (legacy, v2); then fetch is called with polygonCoords and the
\* values read, and the handler waits. The request is numbered for the model:
\* the first accepted submission is 1.
AcceptSubmission(startDate, endDate, frequency) ==
    /\ rpcCount < MaxSubmits
    /\ progressHidden' = IF build = "v2" THEN FALSE ELSE progressHidden
    /\ processBtnDisabled' = TRUE
    /\ statusMessage' =
           updateStatus(build, Message("processing", 0, ""), ProcessingType(build))
    /\ chartContainerShown' = IF build = "legacy" THEN chartContainerShown ELSE FALSE
    /\ mapControlsShown' = IF build = "legacy" THEN mapControlsShown ELSE FALSE
    /\ downloadLinkContainer' =
           IF build = "v1" THEN downloadLinkContainer ELSE << >>
    /\ LET request == Request(rpcCount + 1, PolygonCoords(currentPolygon),
                              startDate, endDate, frequency)
       IN  /\ pending' = pending \cup {request}
           /\ rpcCount' = rpcCount + 1

\* SubmitClick that ignores the click while the status line shows an error:
\* an error that sticks until the page is reloaded.
SubmitClick_StickyError(startDate, endDate, frequency) ==
    /\ ~processBtnDisabled
    /\ "error" \notin {statusMessage.className[i] :
                          i \in 1..Len(statusMessage.className)}
    /\ LET verdict == Validate(build, currentPolygon, startDate, endDate)
       IN  IF verdict # "accepted"
           THEN RejectSubmission(verdict)
           ELSE AcceptSubmission(startDate, endDate, frequency)
    /\ UNCHANGED << build, estimatorVars, locationVars, exportWindow, opacitySlider, polygonVars, chartVars, layerVars >>

\* processBtn.addEventListener('click', ...) up to its first await. A disabled
\* button dispatches no click event. startDate, endDate and frequency are the
\* values the handler reads from startDateInput, endDateInput and
\* frequencySelect: the fields are the user's, who sets them between events
\* (the min and max attributes of a date input limit its picker, not the value
\* typed, and nothing reads the validity state), so any value can be read.
SubmitClick(startDate, endDate, frequency) ==
    /\ ~processBtnDisabled
    /\ LET verdict == Validate(build, currentPolygon, startDate, endDate)
       IN  IF verdict # "accepted"
           THEN RejectSubmission(verdict)
           ELSE AcceptSubmission(startDate, endDate, frequency)
    /\ UNCHANGED << build, estimatorVars, locationVars, exportWindow, opacitySlider, polygonVars, chartVars, layerVars >>

\* ------------------------------------------------------------ layers
\* An image overlay: the object L.imageOverlay returns (id tells two objects
\* apart) made from imageLayers[index] of submission sub.
Overlay(id, sub, index) ==
    [id |-> id, sub |-> sub, index |-> index, opacity |-> DefaultOpacity]

\* The identity of a new object: the least one no live object has.
FreshId(objects) ==
    CHOOSE i \in 1..(Cardinality(objects) + 1) :
        /\ \A o \in objects : o.id # i
        /\ \A k \in 1..(i - 1) : \E o \in objects : o.id = k

\* What showLayer reads and writes: the overlays on the map, activeMapLayers
\* and the date label.
View(map, active, label) == [map |-> map, active |-> active, label |-> label]

\* showLayer without its first line: the active overlays stay on the map.
showLayer_KeepsActive(listener, index, view) ==
    IF index >= 0 /\ index < listener.n
    THEN LET layer == Overlay(FreshId(view.map \cup view.active),
                              listener.sub, index)
         IN  View(view.map \cup {layer}, {layer},
                  [sub |-> listener.sub, index |-> index])
    ELSE view

\* function showLayer(index) of the submission whose listener is `listener`
\* (its imageLayers has listener.n entries): take the active overlays off the
\* map; when imageLayers[index] exists, add its overlay, make it the active one
\* and show its date.
showLayer(listener, index, view) ==
    LET removed == view.map \ view.active
    IN  IF index >= 0 /\ index < listener.n
        THEN LET layer == Overlay(FreshId(removed \cup view.active),
                                  listener.sub, index)
             IN  View(removed \cup {layer}, {layer},
                      [sub |-> listener.sub, index |-> index])
        ELSE View(removed, view.active, view.label)

\* An 'input' event of the slider: every listener added so far runs, in the
\* order added, each with the slider's value.
RECURSIVE RunListeners(_, _, _)
RunListeners(listeners, index, view) ==
    IF listeners = << >> THEN view
    ELSE RunListeners(Tail(listeners), index,
                      showLayer(Head(listeners), index, view))

\* SliderValueAfter with slider.value = 0: the oldest date shown by default.
SliderValueAfter_Oldest(n) == 0

\* The value a range input takes when script sets max and then value to n - 1
\* (min is 0): a maximum below the minimum leaves the value at the minimum.
SliderValueAfter(n) == IF n >= 1 THEN n - 1 ELSE 0

\* The user moves the layer slider to index i: possible when the controls are
\* displayed, within 0..max, and an input event fires when the value changes.
SliderInput(i) ==
    /\ build # "legacy"
    /\ mapControlsShown
    /\ i >= 0 /\ i <= sliderMax
    /\ i # sliderValue
    /\ sliderValue' = i
    /\ LET view == RunListeners(sliderListeners, i,
                                View(mapOverlays, activeMapLayers, dateLabel))
       IN  /\ mapOverlays' = view.map
           /\ activeMapLayers' = view.active
           /\ dateLabel' = view.label
    /\ UNCHANGED << build, estimatorVars, locationVars, exportWindow, opacitySlider, polygonVars, buttonVars, statusMessage,
                    resultVars, chartVars, sliderMax, sliderListeners,
                    downloadLinkContainer, requestVars >>

\* The user moves the opacity slider to o: possible when the controls are
\* displayed. No script listens to the slider: only its own value changes.
OpacityInput(o) ==
    /\ build # "legacy"
    /\ mapControlsShown
    /\ o # opacitySlider
    /\ opacitySlider' = o
    /\ UNCHANGED << build, estimatorVars, locationVars, exportWindow, polygonVars, buttonVars, statusMessage, resultVars,
                    chartVars, layerVars, downloadLinkContainer, requestVars >>

\* ---------------------------------------------------------- response
\* What comes back for a request: whether the call reached the service
\* (fetch resolves) and with which status (response.ok), and the body:
\*   "notJson"     no JSON (response.json() rejects)
\*   "error"       JSON with an error string and no result fields
\*   "empty"       JSON with neither an error string nor result fields
\*   "noGraphData" JSON with imageLayers and no graphData
\*   "result"      the well-formed result; n is the length of imageLayers
\*                 (legacy: the number of download URLs, fileUrl first),
\*                 graphData the series (legacy: none)
Outcome(reached, ok, body, n, graphData) ==
    [reached |-> reached, ok |-> ok, body |-> body, n |-> n,
     graphData |-> graphData]

\* One element of result.graphData.
GraphPoint(date, value) == [date |-> date, value |-> value]

\* The series a result carries: two points, the later date first.
GraphSeries ==
    {<< GraphPoint(2, 3), GraphPoint(1, 5) >>}

Outcomes(b) ==
    {Outcome(FALSE, FALSE, "none", 0, << >>)}
        \cup {Outcome(TRUE, ok, "notJson", 0, << >>) : ok \in BOOLEAN}
        \cup {Outcome(TRUE, FALSE, body, 0, << >>) : body \in {"error", "empty"}}
        \cup (IF b = "legacy"
              THEN {Outcome(TRUE, TRUE, "result", n, << >>) : n \in 0..MaxLayers}
              ELSE {Outcome(TRUE, TRUE, "result", n, graphData) :
                        n \in 0..MaxLayers, graphData \in GraphSeries}
                   \cup {Outcome(TRUE, TRUE, body, 0, << >>) :
                             body \in {"error", "empty", "noGraphData"}})

\* The way the handler takes through its try block:
\*   "catch"         fetch or response.json() rejects
\*   "backendError"  the else branch of if (response.ok)
\*   "abortAtStatus" result.imageLayers.length throws (after clearLayers)
\*   "abortAtGraph"  result.graphData.map throws (after the containers are
\*                   displayed)
\*   "success"       the whole success branch
ResponsePath(b, o) ==
    IF ~o.reached \/ o.body = "notJson" THEN "catch"
    ELSE IF ~o.ok THEN "backendError"
    ELSE IF b = "legacy" THEN "success"
    ELSE IF o.body \in {"error", "empty"} THEN "abortAtStatus"
    ELSE IF o.body = "noGraphData" THEN "abortAtGraph"
    ELSE "success"

\* The type the catch block passes to updateStatus: v2 passes the caught error.
CatchType(b) == IF b = "v2" THEN ErrorObject ELSE "error"

\* The status line when the handler is done with path `path`.
ResponseStatus(b, o, path) ==
    CASE path = "success" ->
             updateStatus(b, Message("complete",
                                     IF b = "legacy" THEN 0 ELSE o.n, ""),
                          "success")
      [] path = "backendError" ->
             updateStatus(b, IF o.body = "error"
                             THEN Message("backendError", 0, "error of the payload")
                             ELSE Message("backendUnknown", 0, ""),
                          "error")
      [] OTHER ->
             updateStatus(b, Message("connectError", 0, ""), CatchType(b))

\* A child of downloadLinkContainer: a download link of the legacy build, or
\* the export button of v2 with the polygonCoords its onclick closes over.
Child(kind, polygon) == [kind |-> kind, polygon |-> polygon]

LegacyLinks(n) ==
    IF n = 0 THEN << >>
    ELSE IF n = 1 THEN << Child("tiff", << >>) >>
    ELSE << Child("tiff", << >>), Child("pdf", << >>) >>

\* RenderChart without ndviChart.destroy(): the chart of the last result stays
\* alive on the canvas under the new one.
RenderChart_KeepsOldChart(sub, graphData, chart, alive) ==
    [ndviChart   |-> sub,
     chartsAlive |-> alive \cup {sub},
     chartData   |-> [i \in 1..Len(graphData) |->
                         [x |-> graphData[i].date, y |-> graphData[i].value]]]

\* The chart part of the success branch: graphData = result.graphData.map(d =>
\* ({ x: d.date, y: d.value })), the chart in ndviChart is destroyed if there
\* is one, ndviChart = new Chart(ctx, ...) with data: graphData.
RenderChart(sub, graphData, chart, alive) ==
    [ndviChart   |-> sub,
     chartsAlive |-> (alive \ {chart}) \cup {sub},
     chartData   |-> [i \in 1..Len(graphData) |->
                         [x |-> graphData[i].date, y |-> graphData[i].value]]]

\* FirstView without activeMapLayers.forEach(layer => map.removeLayer(layer))
\* before activeMapLayers = []: the overlay of the last result stays on the map.
FirstView_KeepsOldLayers(sub, n) ==
    showLayer([sub |-> sub, n |-> n], SliderValueAfter(n),
              View(mapOverlays, {}, dateLabel))

\* The layer part of the success branch: the old active overlays leave the
\* map, activeMapLayers = [], then showLayer(slider.value).
FirstView(sub, n) ==
    showLayer([sub |-> sub, n |-> n], SliderValueAfter(n),
              View(mapOverlays \ activeMapLayers, {}, dateLabel))

\* FinallyBlock without progressBarContainer.classList.add('hidden').
FinallyBlock_ProgressStaysShown(b, hidden) ==
    [progressHidden |-> hidden, disabled |-> FALSE]

\* FinallyBlock without processBtn.disabled = false.
FinallyBlock_ButtonStaysDisabled(b, hidden) ==
    [progressHidden |-> IF b = "v2" THEN TRUE ELSE hidden, disabled |-> TRUE]

\* The finally block: the progress bar is hidden (v2; `hidden` is whether it
\* was) and the button enabled.
FinallyBlock(b, hidden) ==
    [progressHidden |-> IF b = "v2" THEN TRUE ELSE hidden, disabled |-> FALSE]

\* The click handler of request r from the return of its awaits to its end:
\* the try block, the catch block if it throws, the finally block. Nothing is
\* written between the two awaits, so they are one step.
Respond(r, o) ==
    /\ r \in pending
    /\ o \in Outcomes(build)
    /\ LET path    == ResponsePath(build, o)
           results == build # "legacy"
           cleared == results /\ path \in {"abortAtStatus", "abortAtGraph", "success"}
           shown   == results /\ path \in {"abortAtGraph", "success"}
           full    == results /\ path = "success"
           view    == FirstView(r.sub, o.n)
           chart   == RenderChart(r.sub, o.graphData, ndviChart, chartsAlive)
       IN  /\ drawnItems' = IF cleared THEN {} ELSE drawnItems
           /\ statusMessage' = ResponseStatus(build, o, path)
           /\ chartContainerShown' = IF shown THEN TRUE ELSE chartContainerShown
           /\ mapControlsShown' = IF shown THEN TRUE ELSE mapControlsShown
           /\ ndviChart' = IF full THEN chart.ndviChart ELSE ndviChart
           /\ chartsAlive' = IF full THEN chart.chartsAlive ELSE chartsAlive
           /\ chartData' = IF full THEN chart.chartData ELSE chartData
           /\ mapOverlays' = IF full THEN view.map ELSE mapOverlays
           /\ activeMapLayers' = IF full THEN view.active ELSE activeMapLayers
           /\ dateLabel' = IF full THEN view.label ELSE dateLabel
           /\ sliderMax' = IF full THEN o.n - 1 ELSE sliderMax
           /\ sliderValue' = IF full THEN SliderValueAfter(o.n) ELSE sliderValue
           /\ sliderListeners' =
                  IF full THEN Append(sliderListeners, [sub |-> r.sub, n |-> o.n])
                          ELSE sliderListeners
           /\ downloadLinkContainer' =
                  CASE full /\ build = "v2" ->
                           Append(downloadLinkContainer, Child("export", r.polygon))
                    [] path = "success" /\ build = "legacy" ->
                           downloadLinkContainer \o LegacyLinks(o.n)
                    [] OTHER -> downloadLinkContainer
    /\ progressHidden' = FinallyBlock(build, progressHidden).progressHidden
    /\ processBtnDisabled' = FinallyBlock(build, progressHidden).disabled
    /\ pending' = pending \ {r}
    /\ UNCHANGED << build, estimatorVars, locationVars, exportWindow, opacitySlider, currentPolygon, userPolygon, rpcCount >>

\* ------------------------------------------------------------- export
\* The values the date and frequency inputs hold at a click on an export
\* button.
ExportInputs ==
    {[startDate |-> MissionStart + 1, endDate |-> Today, frequency |-> "weekly"]}

\* The URLSearchParams of exportBtn.onclick: the three inputs as they are at
\* the click, and the polygonCoords the handler closes over.
ExportParams(child, startDate, endDate, frequency) ==
    [startDate |-> startDate, endDate |-> endDate, frequency |-> frequency,
     polygon |-> child.polygon]

\* A click on the export button that is child i of downloadLinkContainer:
\* window.open('/export-html?' + params, '_blank').
ExportClick(i, input) ==
    /\ i \in 1..Len(downloadLinkContainer)
    /\ downloadLinkContainer[i].kind = "export"
    /\ exportWindow' = << ExportParams(downloadLinkContainer[i], input.startDate,
                                       input.endDate, input.frequency) >>
    /\ UNCHANGED << build, estimatorVars, locationVars, opacitySlider, polygonVars, buttonVars,
                    statusMessage, resultVars, chartVars, layerVars,
                    downloadLinkContainer, requestVars >>

\* --------------------------------------------------------------- Next
Next ==
    \/ \E p \in PolygonIds : DrawCreated(p)
    \/ DrawEdited
    \/ DrawDeleted
    \/ \E startDate \in Dates, endDate \in Dates, frequency \in Frequencies :
           SubmitClick(startDate, endDate, frequency)
    \/ \E r \in pending : \E o \in Outcomes(build) : Respond(r, o)
    \/ \E i \in 0..MaxLayers : SliderInput(i)
    \/ \E o \in OpacityValues : OpacityInput(o)
    \/ \E i \in 1..MaxSubmits : \E input \in ExportInputs : ExportClick(i, input)

Spec == Init /\ [][Next]_vars

\* ----------------------------------------------------------- location
\* The find-my-location control of v2 on its own: it reads nothing of the rest
\* of the page and writes the status line only.
LocationInit ==
    /\ build = "v2"
    /\ Loaded
    /\ areaArg = << >>
    /\ areaCalls = {}

\* A click on the location button: _findLocation makes two new closures,
\* calls map.locate (one geolocation request) and registers the closures on
\* the map with .on('locationfound', ...).on('locationerror', ...). Nothing
\* takes listeners off the map.
FindLocationClick ==
    /\ locateListeners < MaxLocates
    /\ locateListeners' = locateListeners + 1
    /\ locating' = locating + 1
    /\ UNCHANGED << build, estimatorVars, locationFixes, locationMarkers,
                    exportWindow, opacitySlider, polygonVars, buttonVars,
                    statusMessage, resultVars, chartVars, layerVars,
                    downloadLinkContainer, requestVars >>

\* One geolocation request is answered with a position: the map fires
\* 'locationfound' and every onLocationFound registered so far runs; each adds
\* its own marker and circle and starts its own 3-second timer.
LocationFound ==
    /\ locating > 0
    /\ locating' = locating - 1
    /\ locationFixes' = locationFixes + 1
    /\ locationMarkers' = locationMarkers \cup
           {[fix |-> locationFixes + 1, listener |-> k] : k \in 1..locateListeners}
    /\ UNCHANGED << build, estimatorVars, locateListeners,
                    exportWindow, opacitySlider, polygonVars, buttonVars,
                    statusMessage, resultVars, chartVars, layerVars,
                    downloadLinkContainer, requestVars >>

\* One geolocation request fails with err.code: the map fires 'locationerror'
\* and every onLocationError registered so far runs updateStatus(message,
\* 'error') with the message of the code.
LocationError(code) ==
    /\ locating > 0
    /\ locating' = locating - 1
    /\ statusMessage' = updateStatus(build, Message("locationError", code, ""), "error")
    /\ UNCHANGED << build, estimatorVars, locateListeners, locationFixes,
                    locationMarkers, exportWindow, opacitySlider, polygonVars,
                    buttonVars, resultVars, chartVars, layerVars,
                    downloadLinkContainer, requestVars >>

\* The timer of one marker/circle pair fires: map.removeLayer(marker);
\* map.removeLayer(circle).
LocationTimer(pair) ==
    /\ pair \in locationMarkers
    /\ locationMarkers' = locationMarkers \ {pair}
    /\ UNCHANGED << build, estimatorVars, locateListeners, locating,
                    locationFixes, exportWindow, opacitySlider, polygonVars,
                    buttonVars, statusMessage, resultVars, chartVars, layerVars,
                    downloadLinkContainer, requestVars >>

LocationNext ==
    \/ FindLocationClick
    \/ LocationFound
    \/ \E code \in 1..3 : LocationError(code)
    \/ \E pair \in locationMarkers : LocationTimer(pair)

LocationSpec == LocationInit /\ [][LocationNext]_vars

\* ---------------------------------------------------------- estimator
\* getApproximatePolygonArea on its own (it is a function of its argument):
\* any vertex sequence, in the page of the legacy build, which defines it.
AreaInit ==
    /\ build = "legacy"
    /\ Loaded
    /\ areaArg \in VertexSequences
    /\ areaCalls = {}

\* One call: getApproximatePolygonArea(the argument rotated by k places).
CallEstimator(k) ==
    /\ k = 0 \/ k < Len(areaArg)
    /\ LET latlngs == Rotate(areaArg, k)
       IN  areaCalls' = areaCalls \cup
               {[arg |-> latlngs, reversed |-> FALSE,
                 value |-> getApproximatePolygonArea(latlngs)]}
    /\ UNCHANGED << build, areaArg, locationVars, polygonVars, buttonVars, statusMessage,
                    resultVars, chartVars, layerVars, opacitySlider, exportWindow,
                    downloadLinkContainer, requestVars >>

\* One call: getApproximatePolygonArea(the argument in reverse order).
CallEstimatorReversed ==
    /\ LET latlngs == Reverse(areaArg)
       IN  areaCalls' = areaCalls \cup
               {[arg |-> latlngs, reversed |-> TRUE,
                 value |-> getApproximatePolygonArea(latlngs)]}
    /\ UNCHANGED << build, areaArg, locationVars, polygonVars, buttonVars, statusMessage,
                    resultVars, chartVars, layerVars, opacitySlider, exportWindow,
                    downloadLinkContainer, requestVars >>

AreaNext ==
    \/ \E k \in 0..(MaxVertices - 1) : CallEstimator(k)
    \/ CallEstimatorReversed

AreaSpec == AreaInit /\ [][AreaNext]_vars

\* The continuation of some suspended click handler runs: its fetch promise
\* (and then its json() promise) settles one way or the other.
RpcSettles == \E r \in pending : \E o \in Outcomes(build) : Respond(r, o)

\* The page under the assumption that every request issued eventually
\* resolves or rejects: the browser then runs the handler's continuation.
LiveSpec == Init /\ [][Next]_vars /\ WF_vars(RpcSettles)

\* ============================================================ claims
\* Some click on the submit button is dispatched to the handler.
CanSubmit ==
    \E startDate \in Dates, endDate \in Dates, frequency \in Frequencies :
        ENABLED SubmitClick(startDate, endDate, frequency)

\* The requests a step issues.
Issued == pending' \ pending

\* The reasons of a rejection.
RejectionKinds == {"noPolygon", "tooLarge", "invalidDates"}

\* A step is a rejected submission: the status line changes to a rejection.
RejectedStep ==
    /\ statusMessage' # statusMessage
    /\ statusMessage'.text.kind \in RejectionKinds

\* The five checks of the validator the spec describes.
AllFiveChecks(polygon, startDate, endDate) ==
    /\ polygon # 0
    /\ ~AreaTooLarge(polygon)
    /\ startDate # 0 /\ endDate # 0 /\ startDate <= endDate
    /\ startDate >= MissionStart
    /\ endDate <= Today

C3_AtMostOneOverlay ==
    /\ Cardinality(mapOverlays) <= 1
    /\ mapOverlays \subseteq activeMapLayers

\* Two submissions succeeded and the slider was moved off its default since.
C3_Witness_SliderMovedAfterTwoResults ==
    /\ Len(sliderListeners) >= 2
    /\ sliderValue # SliderValueAfter(sliderListeners[Len(sliderListeners)].n)
    /\ Cardinality(mapOverlays) = 1

\* C4: the chart and the layers are those of one submission in every reachable
\* state, also after the handling of a success response has thrown part-way:
\* every overlay on the map, and the layer list the slider selects from (that
\* of the listener added last), belong to the submission whose series the
\* chart holds.
C4_ChartAndLayersOfOneSubmission ==
    /\ \A o \in mapOverlays : o.sub = ndviChart
    /\ sliderListeners # << >> =>
           sliderListeners[Len(sliderListeners)].sub = ndviChart

\* The handling of a success response threw after the result containers were
\* displayed again, with the chart and an overlay of an earlier result in them.
C4_Witness_AbortedAfterAResult ==
    /\ ndviChart # 0
    /\ mapOverlays # {}
    /\ chartContainerShown
    /\ statusMessage.text.kind = "connectError"

\* C5 as stated: a submission is accepted if and only if all five checks pass.
\* Every request issued passed the five checks, and whenever the button takes
\* clicks every submission that passes them is accepted.
C5_AcceptedIffAllFiveChecks ==
    /\ [][\A r \in Issued :
              AllFiveChecks(currentPolygon, r.startDate, r.endDate)]_vars
    /\ [](\A startDate \in Dates, endDate \in Dates :
              (/\ ~processBtnDisabled
               /\ rpcCount < MaxSubmits
               /\ AllFiveChecks(currentPolygon, startDate, endDate))
              => ENABLED (/\ SubmitClick(startDate, endDate, "monthly")
                          /\ rpcCount' = rpcCount + 1))

\* C6 as stated: no request is issued for a polygon whose estimated area
\* exceeds the maximum, whatever the dates.
C6_OversizedPolygonIssuesNoRpc ==
    [][(currentPolygon # 0 /\ AreaTooLarge(currentPolygon))
           => rpcCount' = rpcCount]_vars

\* C7: a submission that fails validation never contacts the network. A step
\* that rejects a submission issues no request, whichever check failed, and
\* every request issued carries a polygon and dates that pass every check of
\* the handler.
C7_RejectedSubmissionIssuesNoRpc ==
    [][/\ RejectedStep => (rpcCount' = rpcCount /\ pending' = pending)
       /\ \A r \in Issued :
              /\ currentPolygon # 0
              /\ r.polygon = PolygonCoords(currentPolygon)
              /\ r.startDate # 0 /\ r.endDate # 0
              /\ r.startDate <= r.endDate
              /\ build = "legacy" => ~AreaTooLarge(currentPolygon)]_vars

\* A submission was rejected for its dates after an earlier one was accepted
\* and answered.
C7_Witness_RejectedAfterAnAcceptedOne ==
    /\ statusMessage.text.kind = "invalidDates"
    /\ rpcCount >= 1
    /\ pending = {}

\* C8 as stated: whenever no polygon is present (none drawn, or the last one
\* deleted through the toolbar and none drawn since) a submission is rejected
\* with the no-polygon reason: no request is issued, and a click changes the
\* status to that reason only.
C8_NoPolygonIsRejected ==
    [][userPolygon = 0 =>
           /\ rpcCount' = rpcCount
           /\ (statusMessage' # statusMessage
               /\ statusMessage'.text.kind \in RejectionKinds \cup {"processing"})
              => statusMessage'.text.kind = "noPolygon"]_vars

\* C9 as stated: a submission whose start date is earlier than the mission
\* start is rejected, so no request carries such a start date.
C9_StartBeforeMissionIsRejected ==
    [][\A r \in Issued : r.startDate >= MissionStart]_vars

\* C10 as stated: a submission whose end date is later than today is
\* rejected, so no request carries such an end date.
C10_EndInFutureIsRejected ==
    [][\A r \in Issued : r.endDate <= Today]_vars

\* The validator the spec describes: its five checks in their order, the
\* reason of the first that fails, or "accepted".
FirstFailingCheck(polygon, startDate, endDate) ==
    IF polygon = 0 THEN "noPolygon"
    ELSE IF AreaTooLarge(polygon) THEN "tooLarge"
    ELSE IF startDate = 0 \/ endDate = 0 \/ startDate > endDate
         THEN "invalidDates"
    ELSE IF startDate < MissionStart THEN "startBeforeMission"
    ELSE IF endDate > Today THEN "endInFuture"
    ELSE "accepted"

\* C11 as stated: the checks run in the order polygon, area, date order,
\* mission start, end not in future and the first failure wins: whenever a
\* click is rejected, the reason the status line shows is that of the
\* earliest check of that order which the polygon and the dates read fail.
C11_FirstFailingCheckWins ==
    [][\A startDate \in Dates, endDate \in Dates, frequency \in Frequencies :
           (SubmitClick(startDate, endDate, frequency) /\ RejectedStep)
               => statusMessage'.text.kind =
                      FirstFailingCheck(currentPolygon, startDate, endDate)]_vars

\* C12 as stated: the area check is inclusive. A click on a polygon whose
\* estimate is at most the maximum (polygon 1: the maximum itself) is not
\* rejected for its area, and a click on a polygon whose estimate is larger
\* is rejected, issues no request, and the rejection carries the estimate.
C12_AreaCheckInclusiveAndEchoed ==
    [][\A startDate \in Dates, endDate \in Dates, frequency \in Frequencies :
           (SubmitClick(startDate, endDate, frequency) /\ currentPolygon # 0)
               => LET area == getApproximatePolygonArea(GetLatLngs(currentPolygon))
                      max  == 2 * AreaUnit * MAX_FRONTEND_AREA_ESTIMATE_SQKM
                  IN  /\ area <= max => statusMessage'.text.kind # "tooLarge"
                      /\ area > max =>
                             /\ rpcCount' = rpcCount
                             /\ statusMessage'.text = Message("tooLarge", area, "")
      ]_vars

\* The statuses of a submission that ended in failure.
FailureKinds == {"connectError", "backendError", "backendUnknown"}

\* A step is the end of an in-flight submission in failure: its request
\* leaves `pending` and the status line shows a failure.
FailedStep ==
    /\ \E r \in pending : pending' = pending \ {r}
    /\ statusMessage'.text.kind \in FailureKinds

\* C13 as stated: when an in-flight submission ends in failure no partial
\* state of it is kept: the drawn polygons, the result containers, the chart,
\* the layers and the slider, and the links are as they were when the response
\* arrived.
C13_FailureKeepsNoPartialState ==
    [][FailedStep => UNCHANGED << drawnItems, resultVars, chartVars, layerVars,
                                  downloadLinkContainer >>]_vars

\* C14: a submission rejected at validation time leaves the prior results
\* unchanged: the chart, the overlays on the map, the layer controls (their
\* container, the slider, its listeners, the date label) and the export
\* control are exactly as before the click; of all the state only the status
\* message changes.
C14_RejectionChangesOnlyTheStatus ==
    [][RejectedStep =>
           UNCHANGED << build, polygonVars, buttonVars, resultVars, chartVars,
                        layerVars, opacitySlider, downloadLinkContainer,
                        requestVars >>]_vars

\* A click was rejected while the results of a successful submission were on
\* display, the export button included.
C14_Witness_RejectedOverResults ==
    /\ statusMessage.text.kind = "invalidDates"
    /\ chartContainerShown /\ mapControlsShown
    /\ mapOverlays # {}
    /\ downloadLinkContainer # << >>

\* C15 as stated: Validating -> Rejected clears prior results from view, so
\* while the status line shows a rejection no chart container is displayed
\* and no overlay is on the map.
C15_RejectionClearsResults ==
    statusMessage.text.kind \in RejectionKinds
        => (~chartContainerShown /\ ~mapControlsShown /\ mapOverlays = {})

\* C15, amended: Validating -> Rejected does not clear prior results from
\* view. A rejected submission made while the chart and layers of an earlier
\* Succeeded submission are displayed leaves them displayed: the containers
\* stay shown, with the same chart and the same overlays on the map.
C15_RejectionKeepsResultsInView ==
    [][(RejectedStep /\ chartContainerShown /\ mapControlsShown) =>
           /\ chartContainerShown' /\ mapControlsShown'
           /\ ndviChart' = ndviChart
           /\ mapOverlays' = mapOverlays]_vars

\* In v1 a click was rejected and the chart of an earlier submission is on
\* display.
C15_Witness_ChartStillShownAfterRejection ==
    /\ build = "v1"
    /\ statusMessage.text.kind \in RejectionKinds
    /\ chartContainerShown
    /\ ndviChart # 0

\* C16 as stated: after a submission that passed validation ends in Failed
\* the progress indicator is hidden (the failure reason is displayed: that is
\* what makes the step a FailedStep) and none of the results of a previous
\* Succeeded submission is visible: not its chart, not an overlay on the map,
\* not its layer controls.
C16_FailureShowsNoEarlierResults ==
    [][FailedStep =>
           /\ progressHidden'
           /\ ~(chartContainerShown' /\ ndviChart' # 0)
           /\ mapOverlays' = {}
           /\ ~(mapControlsShown' /\ sliderListeners' # << >>)]_vars

\* The overlays put on the map in the course of one 'input' event: those
\* each listener's showLayer adds, whether or not a later listener of the same
\* event takes them off again.
RECURSIVE LayersAdded(_, _, _)
LayersAdded(listeners, index, view) ==
    IF listeners = << >> THEN {}
    ELSE LET next == showLayer(Head(listeners), index, view)
         IN  (next.map \ view.map)
                 \cup LayersAdded(Tail(listeners), index, next)

\* C17 as stated: once a new submission has begun, no event adds a layer of
\* an earlier session's sequence to the map, not even within the handling of
\* one event: every overlay a slider input adds, and every overlay a step
\* leaves on the map that was not there, is of the submission begun last.
C17_NoLayerOfAnEarlierSession ==
    [][/\ \A o \in mapOverlays' \ mapOverlays : o.sub = rpcCount'
       /\ \A i \in 0..MaxLayers :
              SliderInput(i) =>
                  \A o \in LayersAdded(sliderListeners, i,
                                       View(mapOverlays, activeMapLayers,
                                            dateLabel)) :
                      o.sub = rpcCount]_vars

\* A step is the end of an in-flight submission of v1 or v2 in success with n
\* image layers: its request leaves `pending` and the status line reports n
\* images found.
SucceededStep(n) ==
    /\ build # "legacy"
    /\ \E r \in pending : pending' = pending \ {r}
    /\ statusMessage'.text = Message("complete", n, "")

\* C18 as stated: a success response with an empty layer list ends in
\* Succeeded (the status reports 0 images) in a defined no-layers state: no
\* overlay is on the map, no layer is the active one, and the date label shows
\* no layer date of any submission.
C18_EmptyLayerListGivesNoLayersState ==
    [][SucceededStep(0) =>
           /\ mapOverlays' = {}
           /\ activeMapLayers' = {}
           /\ dateLabel'.sub = 0]_vars

\* min(max(i, 0), n - 1)
Clamp(i, n) == IF i < 0 THEN 0 ELSE IF i > n - 1 THEN n - 1 ELSE i

\* Every listener of one 'input' event, run in turn with the slider's value
\* as RunListeners runs them, leaves the layer of its own sequence at the
\* clamped index as the one shown.
RECURSIVE ShowsClamped(_, _, _)
ShowsClamped(listeners, index, view) ==
    \/ listeners = << >>
    \/ LET listener == Head(listeners)
           next == showLayer(listener, index, view)
       IN  /\ listener.n > 0 =>
                  \E o \in next.map :
                      /\ next.active = {o}
                      /\ o.sub = listener.sub
                      /\ o.index = Clamp(index, listener.n)
           /\ ShowsClamped(Tail(listeners), index, next)

\* C19 as stated: setIndex clamps. Whenever showLayer of a sequence of N > 0
\* layers is called with an index i (each listener of a slider input is such
\* a call), it shows the layer at min(max(i, 0), N - 1); an index out of
\* range never leaves no layer shown.
C19_ShowLayerClamps ==
    [][\A i \in 0..MaxLayers :
           SliderInput(i) =>
               ShowsClamped(sliderListeners, i,
                            View(mapOverlays, activeMapLayers, dateLabel))]_vars

\* C20: after every Succeeded submission with N > 0 layers the cursor index
\* is N - 1 (the slider's value and its maximum) and the single overlay on
\* the map is the layer at index N - 1 of that submission, whatever index was
\* selected before.
C20_SuccessShowsMostRecentLayer ==
    [][\A n \in 1..MaxLayers :
           SucceededStep(n) =>
               /\ sliderMax' = n - 1
               /\ sliderValue' = n - 1
               /\ \E o \in mapOverlays' :
                      /\ mapOverlays' = {o}
                      /\ activeMapLayers' = {o}
                      /\ o.index = n - 1
                      /\ \E r \in pending \ pending' : o.sub = r.sub]_vars

\* A submission succeeded with one layer after an earlier one had succeeded
\* with two, whose slider could stand at either index.
C20_Witness_OneLayerAfterTwo ==
    /\ Len(sliderListeners) = 2
    /\ sliderListeners[1].n = 2
    /\ sliderListeners[2].n = 1
    /\ statusMessage.text = Message("complete", 1, "")
    /\ sliderValue = 0

\* The layers shown, without their opacity: which layer of which submission.
LayersShown(overlays) == {[sub |-> l.sub, index |-> l.index] : l \in overlays}

\* C21 as stated: an opacity-slider event sets the opacity of the visible
\* layer to the slider's value o (the slider keeps o within [0, 1]) and
\* changes nothing else: the cursor index and the layer shown are as before.
C21_OpacitySliderSetsLayerOpacity ==
    [][\A o \in OpacityValues :
           OpacityInput(o) =>
               /\ \A l \in mapOverlays' : l.opacity = o
               /\ sliderValue' = sliderValue
               /\ LayersShown(mapOverlays') = LayersShown(mapOverlays)]_vars

\* C22 as stated: whenever the RPC reaches the service and resolves with a
\* non-2xx status the failure is reported as a backend error: the error
\* string of the payload when it has one, a generic backend message
\* otherwise, and never the connectivity message.
C22_Non2xxIsABackendError ==
    [][\A r \in pending : \A o \in Outcomes(build) :
           (Respond(r, o) /\ o.reached /\ ~o.ok) =>
               statusMessage'.text =
                   IF o.body = "error"
                   THEN Message("backendError", 0, "error of the payload")
                   ELSE Message("backendUnknown", 0, "")]_vars

\* The statuses of a finished submission: rejected, failed or succeeded.
OutcomeKinds == RejectionKinds \cup FailureKinds \cup {"complete"}

\* A click with these dates is taken by the handler and ends as the checks of
\* the handler decide from the polygon held and the dates alone: accepted
\* (one request more, while the run has requests left) when they pass, and
\* rejected with the reason of the
\* failing check, without a request, when they do not.
SubmitDecidedByInputs(startDate, endDate) ==
    LET verdict == Validate(build, currentPolygon, startDate, endDate)
    IN  IF verdict = "accepted"
        THEN /\ rpcCount < MaxSubmits =>
                    ENABLED (/\ SubmitClick(startDate, endDate, "monthly")
                             /\ rpcCount' = rpcCount + 1)
             /\ ~ENABLED (/\ SubmitClick(startDate, endDate, "monthly")
                          /\ rpcCount' = rpcCount)
        ELSE /\ ENABLED (/\ SubmitClick(startDate, endDate, "monthly")
                         /\ rpcCount' = rpcCount
                         /\ statusMessage' =
                                updateStatus(build,
                                             RejectionMessage(verdict,
                                                              currentPolygon),
                                             "error"))
             /\ ~ENABLED (/\ SubmitClick(startDate, endDate, "monthly")
                          /\ rpcCount' = rpcCount + 1)

\* C23: errors are terminal for the current submission only. While the status
\* line shows the outcome of a submission (rejected, failed or succeeded) no
\* request is in flight and the button takes clicks, and the next click is
\* decided from the polygon held and the dates read at that click alone,
\* whatever the outcome before it was.
C23_OutcomesAreNotSticky ==
    statusMessage.text.kind \in OutcomeKinds =>
        /\ ~processBtnDisabled
        /\ pending = {}
        /\ \A startDate \in Dates, endDate \in Dates :
               SubmitDecidedByInputs(startDate, endDate)

\* A submission has failed and the next one can be accepted.
C23_Witness_AfterAFailure ==
    /\ statusMessage.text.kind \in FailureKinds
    /\ rpcCount < MaxSubmits
    /\ currentPolygon # 0
    /\ pending = {}

\* A submission has reached Succeeded or Failed and the session is no longer
\* in flight: the progress indicator is hidden and the button takes clicks.
SubmissionEnded ==
    /\ pending = {}
    /\ statusMessage.text.kind \in FailureKinds \cup {"complete"}
    /\ progressHidden
    /\ ~processBtnDisabled

\* C24: provided every request eventually resolves or rejects, every
\* submission that passes validation (a request is in flight) eventually
\* reaches Succeeded or Failed, and the session is then no longer in flight:
\* progress indicator hidden, submit possible again.
C24_AcceptedSubmissionEnds == (pending # {}) ~> SubmissionEnded

\* The second submission of a run has ended, in success or in failure.
C24_Witness_SecondSubmissionEnded ==
    SubmissionEnded /\ rpcCount >= 2

\* C25 as stated: the progress indicator is visible in exactly the states in
\* which a request is in flight.
C25_ProgressShownExactlyInFlight == (~progressHidden) <=> (pending # {})

\* A step is an accepted submission: the click handler disables the button,
\* which it does after the checks and nowhere else.
AcceptedStep == ~processBtnDisabled /\ processBtnDisabled'

\* C26: each accepted submission issues exactly one RPC call and every RPC
\* call belongs to exactly one accepted submission: a step calls fetch once
\* when it is an accepted submission and not at all otherwise (no retry when
\* a response is handled, no duplicate), and the call is the one new request
\* a handler waits for, numbered by the count of calls.
C26_OneRpcPerAcceptedSubmission ==
    [][/\ rpcCount' = IF AcceptedStep THEN rpcCount + 1 ELSE rpcCount
       /\ IF AcceptedStep
          THEN \E r \in pending' :
                   /\ r \notin pending
                   /\ pending' = pending \cup {r}
                   /\ r.sub = rpcCount'
          ELSE pending' \subseteq pending]_vars

\* Two submissions were accepted, two calls made, the second one failed and
\* nothing is in flight.
C26_Witness_TwoCallsSecondFailed ==
    /\ rpcCount = 2
    /\ pending = {}
    /\ statusMessage.text.kind \in FailureKinds

C28_PolygonReplacedWholesale ==
    /\ [](/\ Cardinality(drawnItems) <= 1
          /\ drawnItems \subseteq {currentPolygon} \cap {userPolygon})
    /\ [][\A p \in PolygonIds :
              DrawCreated(p) => (drawnItems' = {p} /\ currentPolygon' = p)]_vars

\* Polygon 1 was drawn and submitted, and polygon 2 drawn after it: the
\* drawing layer holds polygon 2 alone.
C28_Witness_SecondPolygonAlone ==
    /\ \E r \in pending : r.polygon = PolygonCoords(1)
    /\ drawnItems = {2}
    /\ currentPolygon = 2

\* C29: the area estimator returns 0 for every vertex sequence of fewer than 3
\* vertices, and a value that is not negative for every vertex sequence.
C29_AreaIsZeroBelowThreeAndNeverNegative ==
    \A c \in areaCalls :
        /\ c.value >= 0
        /\ Len(c.arg) < 3 => c.value = 0

\* The estimator was called on a ring whose sum is negative (one orientation
\* of a polygon that has an area).
C29_Witness_NegativeSum ==
    \E c \in areaCalls :
        /\ Len(c.arg) >= 3
        /\ ShoelaceFrom(c.arg, 1) < 0
        /\ c.value > 0

C32_OneChartOfTheLatestSeries ==
    /\ [](Cardinality(chartsAlive) <= 1 /\ chartsAlive \subseteq {ndviChart})
    /\ [][\A r \in pending : \A o \in Outcomes(build) :
              (Respond(r, o) /\ build # "legacy"
                  /\ ResponsePath(build, o) = "success") =>
                  /\ ndviChart' = r.sub
                  /\ chartsAlive' = {r.sub}
                  /\ Len(chartData') = Len(o.graphData)
                  /\ \A i \in 1..Len(o.graphData) :
                         /\ chartData'[i].x = o.graphData[i].date
                         /\ chartData'[i].y = o.graphData[i].value]_vars
    /\ [][chartVars' # chartVars =>
              \E r \in pending : \E o \in Outcomes(build) :
                  Respond(r, o) /\ ResponsePath(build, o) = "success"]_vars

\* Two submissions have succeeded; the chart of the second is the only one
\* alive and holds its two points latest date first, as they were returned.
C32_Witness_SecondChartReplacedFirst ==
    /\ Len(sliderListeners) = 2
    /\ ndviChart = sliderListeners[2].sub
    /\ chartsAlive = {ndviChart}
    /\ Len(chartData) = 2
    /\ chartData[1].x > chartData[2].x

\* C33: the export request carries the RequestParams of the submission whose
\* results are displayed. When a submission of v2 succeeds, the export button
\* it creates sends, whatever the date and frequency inputs hold at the click,
\* the polygon, start date, end date and frequency of that submission.
C33_ExportCarriesTheSubmissionParams ==
    [][\A r \in pending : \A o \in Outcomes(build) :
           (Respond(r, o) /\ build = "v2" /\ ResponsePath(build, o) = "success") =>
               LET exportBtn == downloadLinkContainer'[Len(downloadLinkContainer')]
               IN  /\ exportBtn.kind = "export"
                   /\ \A startDate, endDate \in Dates, frequency \in Frequencies :
                          ExportParams(exportBtn, startDate, endDate, frequency)
                              = [startDate |-> r.startDate, endDate |-> r.endDate,
                                 frequency |-> r.frequency, polygon |-> r.polygon]]_vars

\* C34: in every reachable state the polygon a submit would use (the one in
\* currentPolygon), if there is one, is displayed in the drawing layer
\* drawnItems; also after a success response is handled.
C34_CurrentPolygonIsDisplayed ==
    currentPolygon # 0 => currentPolygon \in drawnItems

\* C35: at most one RPC is outstanding at any time. The submit control is
\* disabled from the step that accepts a submission until the step that has
\* handled its response, so a request is issued only when none is outstanding
\* and no two click handlers are suspended on a request together.
C35_AtMostOneRpcOutstanding ==
    /\ [](Cardinality(pending) <= 1 /\ (pending # {} => processBtnDisabled))
    /\ [][Issued # {} =>
              (pending = {} /\ Cardinality(Issued) = 1 /\ processBtnDisabled')]_vars
    /\ [][(processBtnDisabled /\ ~processBtnDisabled') =>
              (pending # {} /\ pending' = {})]_vars

\* The handler of the second accepted submission is suspended on its request,
\* alone, and no click can reach the handler.
C35_Witness_SecondHandlerSuspendedAlone ==
    /\ \E r \in pending : r.sub = 2 /\ pending = {r}
    /\ ~CanSubmit

\* C36: in every reachable state the layer date label on display is the date
\* of the overlay on the map, and when no overlay is on the map it is not the
\* date of a layer of a submission earlier than the latest Succeeded one (the
\* one whose chart is shown).
C36_DateLabelIsOfTheOverlayShown ==
    mapControlsShown =>
        /\ \A layer \in mapOverlays :
               dateLabel = [sub |-> layer.sub, index |-> layer.index]
        /\ mapOverlays = {} => dateLabel.sub \in {0, ndviChart}

\* C37: every failure the user sees (a validation rejection, a backend error,
\* a transport error) sets the status message with the status type 'error':
\* the class names of the status line are then those updateStatus gives for
\* the type 'error', and no others.
C37_FailuresHaveTheErrorType ==
    statusMessage.text.kind \in RejectionKinds \cup FailureKinds =>
        statusMessage.className = ClassName(build, "error")

\* C38: find-my-location. Each location fix adds exactly one marker/circle
\* pair to the map, however many times the location control was clicked
\* before, and the only other change of the pairs on the map is a timer taking
\* its pair off again.
C38_OneMarkerPairPerFix ==
    [][/\ LocationFound =>
              Cardinality(locationMarkers' \ locationMarkers) = 1
       /\ locationMarkers' # locationMarkers =>
              \/ LocationFound
              \/ \E pair \in locationMarkers : LocationTimer(pair)]_vars

====
